---- MODULE Spec2Model ----
(***************************************************************************)
(* The tools/call handler of mcp-fetch and the pipeline behind it: robots  *)
(* gate, page fetch, article extraction, image acquisition, image batching *)
(* and clipboard publishing, result assembly.                              *)
(*                                                                         *)
(* The repository holds three revisions of the server:                     *)
(*   "index"       src/index.ts                  (image URLs only)         *)
(*   "sharp"       src/unnamed/part_001:1-494    (sharp + osascript)       *)
(*   "applescript" src/unnamed/part_001:496-837  (applescript package)     *)
(* The variable `variant` selects the revision an invocation runs.         *)
(*                                                                         *)
(* Strings are sequences of tokens.  Page content is a sequence of         *)
(* one-character tokens, so Len is the JavaScript .length of the content.  *)
(***************************************************************************)
EXTENDS Integers, Sequences, FiniteSets, TLC

\* ---------------------------------------------------------------- bounds
MaxLen == 3
MaxMaxLength == 2
MaxStartIndex == 3
MaxImages == 2
MaxBatch == 7
MaxMixed == 3
MaxGroups == 2
MaxNow == 2
MaxPageStart == 8

\* ------------------------------------------------------ program constants
MAX_HEIGHT == 8000
MAX_SIZE_BYTES == 30 * 1024 * 1024
MAX_IMAGES_PER_GROUP == 6
DefaultMaxLength == 20000
MaxLengthLimit == 1000000
MiB == 1024 * 1024

Variants == {"index", "sharp", "applescript"}

Min(a, b) == IF a < b THEN a ELSE b

\* ------------------------------------------------------------- strings
TheUrl == "https://example.com/a"
BadUrl == "not a url"

Content(L) == [i \in 1..L |-> ToString(i)]

ExtractionFailedText ==
  <<"<", "e", ">", "P", "a", "g", "e", " ", "f", "a", "i", "l", "e", "d", " ",
    "t", "o", " ", "b", "e", " ", "s", "i", "m", "p", "l", "i", "f", "i", "e",
    "d", " ", "f", "r", "o", "m", " ", "H", "T", "M", "L", "<", "/", "e", ">">>

\* String.prototype.slice(a, b) for 0 <= a <= b
JsSlice(s, a, b) ==
  LET from == Min(a, Len(s))
      to   == Min(b, Len(s))
  IN  IF from < to THEN SubSeq(s, from + 1, to) ELSE <<>>

ImgSrc(i) == ToString(i)

RECURSIVE MapSrc(_)
MapSrc(imgs) ==
  IF imgs = <<>> THEN <<>> ELSE <<ImgSrc(Head(imgs))>> \o MapSrc(Tail(imgs))

\* imageUrls.map((url) => `- ${url}`).join("\n")
RECURSIVE JoinBullets(_)
JoinBullets(urls) ==
  IF urls = <<>> THEN <<>>
  ELSE IF Len(urls) = 1 THEN <<"- ", urls[1]>>
  ELSE <<"- ", urls[1], "\n">> \o JoinBullets(Tail(urls))

NoticeHead == "\n\n<e>Content truncated. Call the fetch tool with a start_index of "
NoticeTail == " to get more content.</e>"
TruncationNotice(next) == <<NoticeHead, ToString(next), NoticeTail>>
HasNotice(text) == \E i \in DOMAIN text : text[i] = NoticeHead

\* ------------------------------------------------------------- messages
NetworkErrorMsg == <<"request failed">>
RobotsAuthMsg == <<"Autonomous fetching not allowed based on robots.txt response">>
RobotsDisallowMsg ==
  <<"The site's robots.txt specifies that autonomous fetching is not allowed. Try manually fetching the page using the fetch prompt.">>
PbcopyMissingMsg == <<"'pbcopy' command not found. This tool works on macOS only by default.">>
OsascriptMissingMsg == <<"'osascript' command not found. Required to set clipboard with images.">>
CopyFailedMsg == <<"Failed to copy merged image to clipboard.">>
ExecFailedMsg == <<"Command failed">>
SharpFailedMsg == <<"Input buffer contains unsupported image format">>
AppleScriptErrMsg == <<"osascript error">>

UnknownToolMsg(name) == <<"Unknown tool: ", name>>
InvalidArgsMsg == <<"Invalid arguments: ", "ZodError">>
PageStatusMsg(url, status) ==
  <<"Failed to fetch ", url, " - status code ", ToString(status)>>
ImageStatusMsg(src, status) ==
  <<"Failed to fetch image ", src, ": status ", ToString(status)>>
RawPrefix(contentType) ==
  <<"Content type ", contentType,
    " cannot be simplified to markdown, but here is the raw content:\n">>

\* ------------------------------------------------------- request schema
\* An optional argument is <<>> (absent) or <<v>>.
ArgsSet ==
  [ present    : BOOLEAN,
    url        : {TheUrl, BadUrl},
    maxLength  : {<<>>, <<0>>, <<MaxLengthLimit + 1>>} \cup {<<m>> : m \in 1..MaxMaxLength},
    startIndex : {<<>>, <<-1>>} \cup {<<s>> : s \in 0..MaxStartIndex},
    raw        : {<<>>, <<TRUE>>} ]

ParseSuccess(args) ==
  /\ args.present
  /\ args.url = TheUrl
  /\ args.maxLength # <<>> =>
       (args.maxLength[1] > 0 /\ args.maxLength[1] <= MaxLengthLimit)
  /\ args.startIndex # <<>> => args.startIndex[1] >= 0

ParseData(args) ==
  [ url        |-> args.url,
    maxLength  |-> IF args.maxLength = <<>> THEN DefaultMaxLength ELSE args.maxLength[1],
    startIndex |-> IF args.startIndex = <<>> THEN 0 ELSE args.startIndex[1],
    raw        |-> IF args.raw = <<>> THEN FALSE ELSE args.raw[1] ]

NoParsed == [url |-> "", maxLength |-> 0, startIndex |-> 0, raw |-> FALSE]

\* --------------------------------------------------------------- images
\* The bytes of a fetched image, as far as the pipeline reads them: the height
\* sharp(buffer).metadata() reports and buffer.length.
ImageKinds ==
  { [height |-> 1000, size |-> MiB],
    [height |-> 5000, size |-> MiB],
    [height |-> 1000, size |-> 16 * MiB],
    [height |-> 9000, size |-> MiB],
    [height |-> 1000, size |-> 31 * MiB] }
NoData == [height |-> 0, size |-> 0]

GetImageDimensions(buffer) == [height |-> buffer.height, size |-> buffer.size]

\* stderr of a helper process: a sequence of lines
WarningLine == "WARNING: deprecated"
ErrorLine == "execution error"
StderrSet == {<<>>, <<WarningLine>>, <<ErrorLine>>, <<WarningLine, ErrorLine>>}
IsWarning(line) == line = WarningLine
NonWarningLines(stderr) == SelectSeq(stderr, LAMBDA l : ~IsWarning(l))

VARIABLES
  variant,        \* revision of the server that runs
  pc,             \* the await the invocation is suspended at
  parsed,         \* parsed.data of the handler
  pageResp,       \* the answer to the page request
  robotsResp,     \* the answer to the robots.txt request
  robotsAllowed,  \* checkRobotsTxt returned true
  pageFetched,    \* fetch(url) of the page was issued
  content,        \* FetchResult.content
  prefix,         \* FetchResult.prefix
  imageUrls,      \* FetchResult.imageUrls (<<>> also when undefined)
  finalContent,   \* the handler's finalContent
  thrown,         \* message of the error the handler's catch received
  failStage,      \* stage that threw it
  clipThrown,     \* message of the error fetchUrl's inner catch received
  response,       \* the payload the handler returned
  images,         \* images of the extracted article (ids, document order)
  fetched,        \* fetchedImages (ids)
  data,           \* the data buffer of each fetched image, by position in fetched
  slots,          \* "applescript": state of each image's promise
  order,          \* "applescript": ids in the order their fetches settled
  idx,            \* position of the for-of loop in progress
  hasPbcopy,
  currentGroup, currentHeight, currentSize,
  handed,         \* the groups passed to processGroup / placed in the script
  resume,         \* where the running processGroup was called from
  tempDirExists, tempFiles,
  events,         \* what processGroup has done so far, in order
  helperOut,      \* the result of the helper process that ended last
  inv,            \* two invocations inside addImagesToClipboard at once
  fsDir,          \* /tmp/mcp-fetch-images exists
  fsFiles,        \* the merged_<ms>.png files in it, by <ms>
  now,            \* Date.now()
  clipboard       \* the image on the system clipboard

reqVars == <<variant, parsed, pageResp>>
gateVars == <<robotsResp, robotsAllowed, pageFetched>>
resVars == <<content, prefix, imageUrls, finalContent, thrown, failStage, clipThrown, response>>
imgVars == <<images, fetched, data, slots, order, idx>>
batchVars == <<hasPbcopy, currentGroup, currentHeight, currentSize, handed, resume>>
tmpVars == <<tempDirExists, tempFiles>>
pgVars == <<events, helperOut>>
oneVars == <<pc, reqVars, gateVars, resVars, imgVars, batchVars, tmpVars, pgVars>>
twoVars == <<inv, fsDir, fsFiles, now, clipboard>>
vars == <<oneVars, twoVars>>

NoRobotsResp == [kind |-> "none", status |-> 0, bodyAllows |-> FALSE]
NoPageResp == [kind |-> "none", status |-> 0, ctHtml |-> FALSE, tagHtml |-> FALSE,
               len |-> 0, article |-> FALSE, nImages |-> 0, nOutside |-> 0]
NoResponse == [isError |-> FALSE, text |-> <<>>]
NoHelperOut == [step |-> "none", rejected |-> FALSE, stderr |-> <<>>]

Invocations == {1, 2}
NoFile == [owner |-> 0, group |-> 0]
NoPath == -1
\* no invocation is inside addImagesToClipboard
TwoIdle ==
  /\ inv = [i \in Invocations |->
             [pc |-> "none", nGroups |-> 0, group |-> 0, path |-> NoPath,
              placed |-> <<>>]]
  /\ fsDir = FALSE
  /\ fsFiles = [t \in 0..MaxNow |-> NoFile]
  /\ now = 0
  /\ clipboard = NoFile

Init ==
  /\ variant \in Variants
  /\ pc = "idle"
  /\ parsed = NoParsed
  /\ pageResp = NoPageResp
  /\ robotsResp = NoRobotsResp
  /\ robotsAllowed = FALSE
  /\ pageFetched = FALSE
  /\ content = <<>> /\ prefix = <<>> /\ imageUrls = <<>> /\ finalContent = <<>>
  /\ thrown = <<>> /\ failStage = "none" /\ clipThrown = <<>>
  /\ response = NoResponse
  /\ images = <<>> /\ fetched = <<>> /\ data = <<>>
  /\ slots = <<>> /\ order = <<>> /\ idx = 0
  /\ hasPbcopy = FALSE
  /\ currentGroup = <<>> /\ currentHeight = 0 /\ currentSize = 0
  /\ handed = <<>> /\ resume = "none"
  /\ tempDirExists = FALSE /\ tempFiles = {}
  /\ events = <<>> /\ helperOut = NoHelperOut
  /\ TwoIdle

\* ------------------------------------------------------ result assembly
\* faulty variant: the end of the slice is maxLength, not startIndex + maxLength
FinalContentEndAtMaxLength(c, p) ==
  IF Len(c) > p.maxLength
  THEN JsSlice(c, p.startIndex, p.maxLength)
         \o TruncationNotice(p.startIndex + p.maxLength)
  ELSE c

FinalContent(c, p) ==
  IF Len(c) > p.maxLength
  THEN JsSlice(c, p.startIndex, p.startIndex + p.maxLength)
         \o TruncationNotice(p.startIndex + p.maxLength)
  ELSE c

ImagesSection(urls) ==
  IF Len(urls) > 0
  THEN <<"\n\nImages found in article:\n">> \o JoinBullets(urls)
  ELSE <<>>

\* the "applescript" handler destructures no imageUrls and appends no section
ResponseText(v, pfx, url, fc, urls) ==
  pfx \o <<"Contents of ", url, ":\n">> \o fc
      \o (IF v = "applescript" THEN <<>> ELSE ImagesSection(urls))

\* faulty variant: the catch block forgets the error flag
HandlerCatchNoFlag(msg) == [isError |-> FALSE, text |-> <<"Error: ">> \o msg]

HandlerCatch(msg) == [isError |-> TRUE, text |-> <<"Error: ">> \o msg]

\* catch blocks of checkRobotsTxt and fetchUrl in the "applescript" revision
RobotsWrap(v, msg) ==
  IF v = "applescript" THEN <<"Failed to check robots.txt: ">> \o msg ELSE msg
FetchUrlWrap(v, url, msg) ==
  IF v = "applescript" THEN <<"Failed to fetch ", url, ": ">> \o msg ELSE msg

ProcessedPrefix(n) ==
  <<"Found and processed ", ToString(n),
    " images. Images have been merged vertically (max 6 images per group) and copied to your clipboard. Please paste (Cmd+V) to combine with the retrieved content.\n">>
FailedPrefix(n, msg) ==
  <<"Found ", ToString(n),
    " images but failed to copy them to the clipboard.\nError: ">> \o msg \o <<"\n">>
AddedPrefix(n) ==
  <<"Found and processed ", ToString(n),
    " images. They have been added to your clipboard.\n">>

\* fetchUrl returned {content: c, prefix: pfx, imageUrls: urls}; the handler
\* assembles and returns the payload.
Return(c, pfx, urls, clipMsg) ==
  /\ content' = c
  /\ prefix' = pfx
  /\ imageUrls' = urls
  /\ clipThrown' = clipMsg
  /\ finalContent' = FinalContent(c, parsed)
  /\ response' = [isError |-> FALSE,
                  text |-> ResponseText(variant, pfx, parsed.url,
                                        FinalContent(c, parsed), urls)]
  /\ pc' = "done"
  /\ UNCHANGED <<thrown, failStage>>

\* an error reached the handler's catch
Throw(stage, msg) ==
  /\ thrown' = msg
  /\ failStage' = stage
  /\ response' = HandlerCatch(msg)
  /\ pc' = "done"
  /\ UNCHANGED <<content, prefix, imageUrls, finalContent, clipThrown>>

\* addImagesToClipboard threw inside fetchUrl's try ("sharp" revision)
ClipFail(msg) ==
  Return(content, FailedPrefix(Len(fetched), msg), imageUrls, msg)

\* ------------------------------------------------------------ the handler
ToolNames == {"fetch", "search"}

HandleCall ==
  /\ pc = "idle"
  /\ \E name \in ToolNames, args \in ArgsSet :
       /\ IF name # "fetch"
          THEN /\ Throw("tool", UnknownToolMsg(name))
               /\ UNCHANGED <<parsed, pageFetched>>
          ELSE IF ~ParseSuccess(args)
          THEN /\ Throw("args", InvalidArgsMsg)
               /\ UNCHANGED <<parsed, pageFetched>>
          ELSE /\ parsed' = ParseData(args)
               /\ IF variant = "index"
                  THEN pc' = "page" /\ pageFetched' = TRUE
                  ELSE pc' = "robots" /\ UNCHANGED pageFetched
               /\ UNCHANGED resVars
       /\ UNCHANGED <<variant, pageResp, robotsResp, robotsAllowed, imgVars,
                      batchVars, tmpVars>>
  /\ UNCHANGED pgVars
  /\ UNCHANGED twoVars

\* ------------------------------------------------------------ robots gate
RobotsRespSet ==
  {[kind |-> "reject", status |-> 0, bodyAllows |-> FALSE]} \cup
  [kind : {"http"}, status : {200, 401, 403, 404, 500}, bodyAllows : BOOLEAN]

IsOk(status) == status \in 200..299

\* faulty variant: every non-2xx answer, 401 and 403 included, allows
CheckRobotsTxtAuthOpen(v, resp) ==
  IF resp.kind = "reject"
  THEN [ok |-> FALSE, msg |-> RobotsWrap(v, NetworkErrorMsg)]
  ELSE IF ~IsOk(resp.status)
  THEN [ok |-> TRUE, msg |-> <<>>]
  ELSE IF ~resp.bodyAllows
  THEN [ok |-> FALSE, msg |-> RobotsWrap(v, RobotsDisallowMsg)]
  ELSE [ok |-> TRUE, msg |-> <<>>]

CheckRobotsTxt(v, resp) ==
  IF resp.kind = "reject"
  THEN [ok |-> FALSE, msg |-> RobotsWrap(v, NetworkErrorMsg)]
  ELSE IF ~IsOk(resp.status)
  THEN IF resp.status = 401 \/ resp.status = 403
       THEN [ok |-> FALSE, msg |-> RobotsWrap(v, RobotsAuthMsg)]
       ELSE [ok |-> TRUE, msg |-> <<>>]
  ELSE IF ~resp.bodyAllows
  THEN [ok |-> FALSE, msg |-> RobotsWrap(v, RobotsDisallowMsg)]
  ELSE [ok |-> TRUE, msg |-> <<>>]

RobotsResponse ==
  /\ pc = "robots"
  /\ \E resp \in RobotsRespSet :
       /\ robotsResp' = resp
       /\ LET r == CheckRobotsTxt(variant, resp)
          IN  IF r.ok
              THEN /\ robotsAllowed' = TRUE
                   /\ pageFetched' = TRUE
                   /\ pc' = "page"
                   /\ UNCHANGED resVars
              ELSE /\ Throw("robots", r.msg)
                   /\ UNCHANGED <<robotsAllowed, pageFetched>>
       /\ UNCHANGED <<reqVars, imgVars, batchVars, tmpVars>>
  /\ UNCHANGED pgVars
  /\ UNCHANGED twoVars

\* ---------------------------------------------------------------- fetchUrl
\* A page has nImages img elements inside the subtree Readability extracts
\* (ids 1..nImages, in document order) and nOutside img elements after it
\* (ids nImages+1.., in document order); at most MaxImages in all.
PageRespSet ==
  {[kind |-> "reject", status |-> 0, ctHtml |-> FALSE, tagHtml |-> FALSE,
    len |-> 0, article |-> FALSE, nImages |-> 0, nOutside |-> 0]} \cup
  [kind : {"http"}, status : {404, 500}, ctHtml : {FALSE}, tagHtml : {FALSE},
   len : {0}, article : {FALSE}, nImages : {0}, nOutside : {0}] \cup
  [kind : {"http"}, status : {200}, ctHtml : BOOLEAN, tagHtml : BOOLEAN,
   len : 0..MaxLen, article : BOOLEAN, nImages : {0}, nOutside : {0}] \cup
  [kind : {"http"}, status : {200}, ctHtml : BOOLEAN, tagHtml : BOOLEAN,
   len : {MaxLen}, article : {TRUE}, nImages : 1..MaxImages, nOutside : {0}] \cup
  [kind : {"http"}, status : {200}, ctHtml : {TRUE}, tagHtml : {TRUE},
   len : {MaxLen}, article : {TRUE}, nImages : 0..(MaxImages - 1), nOutside : {1}]

ContentType(resp) == IF resp.ctHtml THEN "text/html" ELSE "text/plain"
IsHtml(resp) == resp.tagHtml \/ resp.ctHtml
Ids(n) == [i \in 1..n |-> i]

\* the images extractContentFromHtml returns
\* faulty variant: every revision queries the whole document
ExtractImagesWholeDocument(v, resp) == Ids(resp.nImages + resp.nOutside)

\* "index" and "sharp" query the extracted article, "applescript" the document
ExtractImages(v, resp) ==
  IF v = "applescript"
  THEN Ids(resp.nImages + resp.nOutside)
  ELSE Ids(resp.nImages)

PageResponse ==
  /\ pc = "page"
  /\ \E resp \in PageRespSet :
       /\ pageResp' = resp
       /\ IF resp.kind = "reject"
          THEN /\ Throw("page", FetchUrlWrap(variant, parsed.url, NetworkErrorMsg))
               /\ UNCHANGED <<imgVars>>
          ELSE IF ~IsOk(resp.status)
          THEN /\ Throw("page", FetchUrlWrap(variant, parsed.url,
                                             PageStatusMsg(parsed.url, resp.status)))
               /\ UNCHANGED <<imgVars>>
          ELSE IF ~(IsHtml(resp) /\ ~parsed.raw)
          THEN /\ Return(Content(resp.len), RawPrefix(ContentType(resp)), <<>>, <<>>)
               /\ UNCHANGED <<imgVars>>
          ELSE IF ~resp.article
          THEN /\ Return(ExtractionFailedText, <<>>, <<>>, <<>>)
               /\ UNCHANGED <<imgVars>>
          ELSE /\ images' = ExtractImages(variant, resp)
               /\ IF variant = "index"
                  THEN /\ Return(Content(resp.len), <<>>, MapSrc(images'), <<>>)
                       /\ UNCHANGED <<fetched, data, slots, order, idx>>
                  ELSE IF Len(images') = 0
                  THEN /\ Return(Content(resp.len), <<>>, <<>>, <<>>)
                       /\ UNCHANGED <<fetched, data, slots, order, idx>>
                  ELSE /\ content' = Content(resp.len)
                       /\ UNCHANGED <<prefix, imageUrls, finalContent, thrown,
                                      failStage, clipThrown, response>>
                       /\ IF variant = "sharp"
                          THEN /\ pc' = "fetchImages"
                               /\ idx' = 1
                               /\ UNCHANGED <<fetched, data, slots, order>>
                          ELSE /\ pc' = "fetchAll"
                               /\ slots' = [i \in DOMAIN images' |-> "pending"]
                               /\ UNCHANGED <<fetched, data, order, idx>>
       /\ UNCHANGED <<variant, parsed, gateVars, batchVars, tmpVars>>
  /\ UNCHANGED pgVars
  /\ UNCHANGED twoVars

\* ------------------------------------------------- fetchImages ("sharp")
ImageRespSet ==
  {[kind |-> "reject", status |-> 0, data |-> NoData],
   [kind |-> "http", status |-> 404, data |-> NoData]} \cup
  [kind : {"http"}, status : {200}, data : ImageKinds]

\* resp.data is the buffer that is pushed: the body, or the first frame sharp
\* extracts from an animated GIF (a failure of that probe is only logged).
FetchImageSeq ==
  /\ pc = "fetchImages"
  /\ \E resp \in ImageRespSet :
       /\ IF resp.kind = "reject"
          THEN /\ Throw("image", NetworkErrorMsg)
               /\ UNCHANGED <<fetched, data, idx>>
          ELSE IF ~IsOk(resp.status)
          THEN /\ Throw("image", ImageStatusMsg(ImgSrc(images[idx]), resp.status))
               /\ UNCHANGED <<fetched, data, idx>>
          ELSE /\ fetched' = Append(fetched, images[idx])
               /\ data' = Append(data, resp.data)
               /\ IF idx < Len(images)
                  THEN /\ idx' = idx + 1
                       /\ pc' = "fetchImages"
                       /\ UNCHANGED resVars
                  ELSE \* fetchedImages.length > 0: addImagesToClipboard starts
                       /\ idx' = 0
                       /\ imageUrls' = MapSrc(fetched')
                       /\ pc' = "which_pbcopy"
                       /\ UNCHANGED <<content, prefix, finalContent, thrown,
                                      failStage, clipThrown, response>>
       /\ UNCHANGED <<reqVars, gateVars, images, slots, order, batchVars, tmpVars>>
  /\ UNCHANGED pgVars
  /\ UNCHANGED twoVars

\* ------------------------------------------- fetchImages ("applescript")
\* Promise.all keeps the input order; filter drops the nulls
\* faulty variant: the results are collected in the order the fetches settle
PromiseAllFilterByCompletion(imgs, sl, ord) ==
  SelectSeq(ord, LAMBDA i : sl[i] = "ok")

PromiseAllFilter(imgs, sl, ord) == SelectSeq(imgs, LAMBDA i : sl[i] = "ok")

FetchImageConc ==
  /\ pc = "fetchAll"
  /\ \E i \in DOMAIN slots, resp \in ImageRespSet :
       /\ slots[i] = "pending"
       /\ slots' = [slots EXCEPT ![i] =
                      IF resp.kind = "http" /\ IsOk(resp.status) THEN "ok" ELSE "null"]
       /\ order' = Append(order, i)
       /\ IF \E j \in DOMAIN slots : slots'[j] = "pending"
          THEN /\ pc' = "fetchAll"
               /\ UNCHANGED <<fetched, handed, resVars>>
          ELSE /\ fetched' = PromiseAllFilter(images, slots', order')
               /\ IF Len(fetched') > 0
                  THEN /\ handed' = <<fetched'>>
                       /\ pc' = "applescript"
                       /\ UNCHANGED resVars
                  ELSE /\ Return(content, <<>>, <<>>, <<>>)
                       /\ UNCHANGED handed
       /\ UNCHANGED <<reqVars, gateVars, images, data, idx, hasPbcopy, currentGroup,
                      currentHeight, currentSize, resume, tmpVars>>
  /\ UNCHANGED pgVars
  /\ UNCHANGED twoVars

\* addImagesToClipboard ("applescript"): one script holding every image
AppleScriptDone ==
  /\ pc = "applescript"
  /\ \E ok \in BOOLEAN :
       /\ IF ok
          THEN Return(content, AddedPrefix(Len(fetched)), <<>>, <<>>)
          ELSE Throw("clipboard", FetchUrlWrap(variant, parsed.url, AppleScriptErrMsg))
       /\ UNCHANGED <<reqVars, gateVars, imgVars, batchVars, tmpVars>>
  /\ UNCHANGED pgVars
  /\ UNCHANGED twoVars

\* ------------------------------------------ addImagesToClipboard ("sharp")
WhichPbcopy ==
  /\ pc = "which_pbcopy"
  /\ \E exists \in BOOLEAN :
       /\ hasPbcopy' = exists
       /\ pc' = "which_osascript"
       /\ UNCHANGED <<reqVars, gateVars, resVars, imgVars, currentGroup,
                      currentHeight, currentSize, handed, resume, tmpVars>>
  /\ UNCHANGED pgVars
  /\ UNCHANGED twoVars

WhichOsascript ==
  /\ pc = "which_osascript"
  /\ \E exists \in BOOLEAN :
       /\ IF ~hasPbcopy THEN ClipFail(PbcopyMissingMsg)
          ELSE IF ~exists THEN ClipFail(OsascriptMissingMsg)
          ELSE pc' = "mkdir" /\ UNCHANGED resVars
       /\ UNCHANGED <<reqVars, gateVars, imgVars, batchVars, tmpVars>>
  /\ UNCHANGED pgVars
  /\ UNCHANGED twoVars

\* mkdir -p tempDir && rm -f tempDir/*.png
Mkdir ==
  /\ pc = "mkdir"
  /\ \E ok \in BOOLEAN :
       /\ IF ok
          THEN /\ tempDirExists' = TRUE
               /\ tempFiles' = {}
               /\ idx' = 1
               /\ pc' = "dims"
               /\ UNCHANGED resVars
          ELSE /\ ClipFail(ExecFailedMsg)
               /\ UNCHANGED <<tmpVars, idx>>
       /\ UNCHANGED <<reqVars, gateVars, images, fetched, data, slots, order, batchVars>>
  /\ UNCHANGED pgVars
  /\ UNCHANGED twoVars

\* the condition that seals the open group before the next image
\* faulty variant: a group is sealed only once it holds more than the maximum count
ShouldSealCountOffByOne(count, height, size, h, s) ==
  \/ count > MAX_IMAGES_PER_GROUP
  \/ height + h > MAX_HEIGHT
  \/ size + s > MAX_SIZE_BYTES

\* faulty variant: a group is sealed already when the candidate image would
\* bring it exactly to the height or size limit
ShouldSealAtLimit(count, height, size, h, s) ==
  \/ count >= MAX_IMAGES_PER_GROUP
  \/ height + h >= MAX_HEIGHT
  \/ size + s >= MAX_SIZE_BYTES

\* faulty variant: the totals are tested without the candidate image
ShouldSealBeforeAdding(count, height, size, h, s) ==
  \/ count >= MAX_IMAGES_PER_GROUP
  \/ height > MAX_HEIGHT
  \/ size > MAX_SIZE_BYTES

ShouldSeal(count, height, size, h, s) ==
  \/ count >= MAX_IMAGES_PER_GROUP
  \/ height + h > MAX_HEIGHT
  \/ size + s > MAX_SIZE_BYTES

\* the loop goes on with open group g (running totals h, s) after image idx;
\* hd is the list of groups handed to processGroup so far
LoopNext(g, h, s, hd) ==
  /\ currentGroup' = g
  /\ currentHeight' = h
  /\ currentSize' = s
  /\ IF idx < Len(fetched)
     THEN /\ idx' = idx + 1
          /\ pc' = "dims"
          /\ handed' = hd
          /\ resume' = "none"
     ELSE \* after the loop: processGroup(currentGroup)
          /\ idx' = idx
          /\ handed' = Append(hd, g)
          /\ pc' = IF g = <<>> THEN "rmdir" ELSE "pg_composite"
          /\ resume' = "final"

\* one iteration of the for-of loop, from getImageDimensions on
BatchImage ==
  /\ pc = "dims"
  /\ LET d == GetImageDimensions(data[idx])
     IN  IF ShouldSeal(Len(currentGroup), currentHeight, currentSize, d.height, d.size)
         THEN IF currentGroup = <<>>
              THEN \* processGroup returns at once on an empty group
                   LoopNext(<<fetched[idx]>>, d.height, d.size, Append(handed, <<>>))
              ELSE /\ handed' = Append(handed, currentGroup)
                   /\ pc' = "pg_composite"
                   /\ resume' = "loop"
                   /\ UNCHANGED <<idx, currentGroup, currentHeight, currentSize>>
         ELSE LoopNext(Append(currentGroup, fetched[idx]),
                       currentHeight + d.height, currentSize + d.size, handed)
  /\ UNCHANGED <<reqVars, gateVars, resVars, images, fetched, data, slots, order,
                 hasPbcopy, tmpVars>>
  /\ UNCHANGED pgVars
  /\ UNCHANGED twoVars

\* sharp(buffer).metadata() rejects in getImageDimensions
BatchImageFail ==
  /\ pc = "dims"
  /\ ClipFail(SharpFailedMsg)
  /\ UNCHANGED <<reqVars, gateVars, imgVars, batchVars, tmpVars>>
  /\ UNCHANGED pgVars
  /\ UNCHANGED twoVars

\* the awaits of processGroup, in program order
\* faulty variant: the paste keystroke is sent with no delay after the clipboard is set
AfterStageNoSettle(stage) ==
  CASE stage = "pg_composite" -> "pg_setclip"
    [] stage = "pg_setclip"   -> "pg_paste"
    [] stage = "pg_sleep1"    -> "pg_paste"
    [] stage = "pg_paste"     -> "pg_sleep2"

AfterStage(stage) ==
  CASE stage = "pg_composite" -> "pg_setclip"
    [] stage = "pg_setclip"   -> "pg_sleep1"
    [] stage = "pg_sleep1"    -> "pg_paste"
    [] stage = "pg_paste"     -> "pg_sleep2"

\* processGroup did `kind` for the group it was called with
Did(kind) == Append(events, [kind |-> kind, group |-> Len(handed)])

\* processGroup: the composite is written to mergedImagePath
PgComposite ==
  /\ pc = "pg_composite"
  /\ \E ok \in BOOLEAN :
       /\ IF ok
          THEN /\ tempFiles' = tempFiles \cup {Len(handed)}
               /\ events' = Did("write")
               /\ pc' = AfterStage("pg_composite")
               /\ UNCHANGED resVars
          ELSE /\ ClipFail(SharpFailedMsg)
               /\ UNCHANGED <<tempFiles, events>>
       /\ UNCHANGED <<reqVars, gateVars, imgVars, batchVars, tempDirExists, helperOut>>
  /\ UNCHANGED twoVars

ExecResultSet == [rejected : {TRUE}, stderr : {<<>>}] \cup [rejected : {FALSE}, stderr : StderrSet]

\* the stderr test of the clipboard-set step (part_001:237-245)
SetClipFatal(stderr) == Len(NonWarningLines(stderr)) > 0

\* the stderr test of the paste step (part_001:251-258): console.warn only
PasteFatal(stderr) == FALSE

\* processGroup: osascript 'set the clipboard to ...' ended
PgSetClip ==
  /\ pc = "pg_setclip"
  /\ \E res \in ExecResultSet :
       /\ helperOut' = [step |-> "setclip", rejected |-> res.rejected,
                        stderr |-> res.stderr]
       /\ IF res.rejected
          THEN ClipFail(ExecFailedMsg) /\ UNCHANGED events
          ELSE IF SetClipFatal(res.stderr)
          THEN ClipFail(CopyFailedMsg) /\ UNCHANGED events
          ELSE /\ pc' = AfterStage("pg_setclip")
               /\ events' = Did("setclip")
               /\ UNCHANGED resVars
       /\ UNCHANGED <<reqVars, gateVars, imgVars, batchVars, tmpVars>>
  /\ UNCHANGED twoVars

PgSleep1 ==
  /\ pc = "pg_sleep1"
  /\ pc' = AfterStage("pg_sleep1")
  /\ events' = Did("sleep")
  /\ helperOut' = NoHelperOut
  /\ UNCHANGED <<reqVars, gateVars, resVars, imgVars, batchVars, tmpVars>>
  /\ UNCHANGED twoVars

\* processGroup: osascript keystroke "v" ended
PgPaste ==
  /\ pc = "pg_paste"
  /\ \E res \in ExecResultSet :
       /\ helperOut' = [step |-> "paste", rejected |-> res.rejected,
                        stderr |-> res.stderr]
       /\ IF res.rejected
          THEN ClipFail(ExecFailedMsg) /\ UNCHANGED events
          ELSE IF PasteFatal(res.stderr)
          THEN ClipFail(CopyFailedMsg) /\ UNCHANGED events
          ELSE /\ pc' = AfterStage("pg_paste")
               /\ events' = Did("paste")
               /\ UNCHANGED resVars
       /\ UNCHANGED <<reqVars, gateVars, imgVars, batchVars, tmpVars>>
  /\ UNCHANGED twoVars

\* the second delay ends and processGroup returns to its caller
PgSleep2 ==
  /\ pc = "pg_sleep2"
  /\ events' = Did("sleep")
  /\ helperOut' = NoHelperOut
  /\ IF resume = "loop"
     THEN LET d == GetImageDimensions(data[idx])
          IN  LoopNext(<<fetched[idx]>>, d.height, d.size, handed)
     ELSE /\ pc' = "rmdir"
          /\ UNCHANGED <<idx, currentGroup, currentHeight, currentSize, handed, resume>>
  /\ UNCHANGED <<reqVars, gateVars, resVars, images, fetched, data, slots, order,
                 hasPbcopy, tmpVars>>
  /\ UNCHANGED twoVars

\* rm -rf tempDir, then addImagesToClipboard and fetchUrl return
Rmdir ==
  /\ pc = "rmdir"
  /\ \E ok \in BOOLEAN :
       /\ IF ok
          THEN /\ tempDirExists' = FALSE
               /\ tempFiles' = {}
               /\ Return(content, ProcessedPrefix(Len(fetched)), imageUrls, <<>>)
          ELSE /\ ClipFail(ExecFailedMsg)
               /\ UNCHANGED tmpVars
       /\ UNCHANGED <<reqVars, gateVars, imgVars, batchVars>>
  /\ UNCHANGED pgVars
  /\ UNCHANGED twoVars

\* ------------------------------------------------------- specifications
Next ==
  \/ HandleCall
  \/ RobotsResponse
  \/ PageResponse
  \/ FetchImageSeq
  \/ FetchImageConc
  \/ AppleScriptDone
  \/ WhichPbcopy
  \/ WhichOsascript
  \/ Mkdir
  \/ BatchImage
  \/ BatchImageFail
  \/ PgComposite
  \/ PgSetClip
  \/ PgSleep1
  \/ PgPaste
  \/ PgSleep2
  \/ Rmdir

Spec == Init /\ [][Next]_vars

\* addImagesToClipboard of the "sharp" revision on its own, on every input
\* sequence of at most MaxBatch images of at most two kinds and on every
\* sequence of at most MaxMixed images of any kinds.
SeqsOver(S, n) == UNION {[1..k -> S] : k \in 1..n}
BatchInputs ==
  SeqsOver(ImageKinds, MaxMixed) \cup
  UNION {SeqsOver({a, b}, MaxBatch) : a \in ImageKinds, b \in ImageKinds}

InitImages ==
  /\ variant = "sharp"
  /\ pc = "which_pbcopy"
  /\ parsed = [url |-> TheUrl, maxLength |-> DefaultMaxLength,
               startIndex |-> 0, raw |-> FALSE]
  /\ robotsResp = [kind |-> "http", status |-> 404, bodyAllows |-> FALSE]
  /\ robotsAllowed = TRUE
  /\ pageFetched = TRUE
  /\ content = Content(1) /\ prefix = <<>> /\ finalContent = <<>>
  /\ thrown = <<>> /\ failStage = "none" /\ clipThrown = <<>>
  /\ response = NoResponse
  /\ data \in BatchInputs
  /\ pageResp = [kind |-> "http", status |-> 200, ctHtml |-> TRUE, tagHtml |-> TRUE,
                 len |-> 1, article |-> TRUE, nImages |-> Len(data), nOutside |-> 0]
  /\ images = Ids(Len(data))
  /\ fetched = images
  /\ imageUrls = MapSrc(fetched)
  /\ slots = <<>> /\ order = <<>> /\ idx = 0
  /\ hasPbcopy = FALSE
  /\ currentGroup = <<>> /\ currentHeight = 0 /\ currentSize = 0
  /\ handed = <<>> /\ resume = "none"
  /\ tempDirExists = FALSE /\ tempFiles = {}
  /\ events = <<>> /\ helperOut = NoHelperOut
  /\ TwoIdle

NextImages ==
  \/ WhichPbcopy
  \/ WhichOsascript
  \/ Mkdir
  \/ BatchImage
  \/ BatchImageFail
  \/ PgComposite
  \/ PgSetClip
  \/ PgSleep1
  \/ PgPaste
  \/ PgSleep2
  \/ Rmdir

SpecImages == InitImages /\ [][NextImages]_vars

\* Both entry points under the whole pipeline: an invocation from its start,
\* and addImagesToClipboard on the batch inputs.
InitAll == Init \/ InitImages
SpecAll == InitAll /\ [][Next]_vars

\* ------------------------------------- two invocations at the same time
\* Two tools/call requests of the "sharp" revision whose handlers are both
\* inside addImagesToClipboard.  Each await is a point where the other
\* handler may run.  Both use the same tempDir; invocation i has nGroups
\* non-empty groups to process, and the composite of its group g is the
\* file content [owner |-> i, group |-> g].
Goto(i, to) == inv' = [inv EXCEPT ![i].pc = to]
NoFiles == [t \in 0..MaxNow |-> NoFile]

\* mkdir -p tempDir && rm -f tempDir/*.png
TwoMkdir ==
  /\ \E i \in Invocations :
       /\ inv[i].pc = "mkdir"
       /\ fsDir' = TRUE
       /\ fsFiles' = NoFiles
       /\ inv' = [inv EXCEPT ![i].pc = "path", ![i].group = 1]
  /\ UNCHANGED <<oneVars, now, clipboard>>

\* the <ms> of merged_<ms>.png
MergedImageName(i, t) == t

\* processGroup: mergedImagePath is computed
TwoPath ==
  /\ \E i \in Invocations :
       /\ inv[i].pc = "path"
       /\ inv' = [inv EXCEPT ![i].pc = "write", ![i].path = MergedImageName(i, now)]
  /\ UNCHANGED <<oneVars, fsDir, fsFiles, now, clipboard>>

\* processGroup: toFile(mergedImagePath) writes the composite, or rejects
\* when the directory is gone
TwoWrite ==
  /\ \E i \in Invocations :
       /\ inv[i].pc = "write"
       /\ IF fsDir
          THEN /\ fsFiles' = [fsFiles EXCEPT ![inv[i].path] =
                                [owner |-> i, group |-> inv[i].group]]
               /\ Goto(i, "setclip")
          ELSE /\ Goto(i, "failed")
               /\ UNCHANGED fsFiles
  /\ UNCHANGED <<oneVars, fsDir, now, clipboard>>

\* processGroup: osascript reads the file at mergedImagePath into the
\* clipboard, or fails when there is no such file
TwoSetClip ==
  /\ \E i \in Invocations :
       /\ inv[i].pc = "setclip"
       /\ IF fsFiles[inv[i].path] # NoFile
          THEN /\ clipboard' = fsFiles[inv[i].path]
               /\ inv' = [inv EXCEPT ![i].pc = "sleep1",
                                     ![i].placed = Append(@, fsFiles[inv[i].path])]
          ELSE /\ Goto(i, "failed")
               /\ UNCHANGED clipboard
  /\ UNCHANGED <<oneVars, fsDir, fsFiles, now>>

TwoSleep1 ==
  /\ \E i \in Invocations :
       /\ inv[i].pc = "sleep1"
       /\ Goto(i, "paste")
  /\ UNCHANGED <<oneVars, fsDir, fsFiles, now, clipboard>>

TwoPaste ==
  /\ \E i \in Invocations :
       /\ inv[i].pc = "paste"
       /\ Goto(i, "sleep2")
  /\ UNCHANGED <<oneVars, fsDir, fsFiles, now, clipboard>>

\* processGroup returns; the caller goes on with its next group or is through
TwoSleep2 ==
  /\ \E i \in Invocations :
       /\ inv[i].pc = "sleep2"
       /\ IF inv[i].group < inv[i].nGroups
          THEN inv' = [inv EXCEPT ![i].pc = "path", ![i].group = @ + 1]
          ELSE Goto(i, "rmdir")
  /\ UNCHANGED <<oneVars, fsDir, fsFiles, now, clipboard>>

\* rm -rf tempDir
TwoRmdir ==
  /\ \E i \in Invocations :
       /\ inv[i].pc = "rmdir"
       /\ fsDir' = FALSE
       /\ fsFiles' = NoFiles
       /\ Goto(i, "done")
  /\ UNCHANGED <<oneVars, now, clipboard>>

\* a millisecond passes
Tick ==
  /\ now < MaxNow
  /\ now' = now + 1
  /\ UNCHANGED <<oneVars, inv, fsDir, fsFiles, clipboard>>

InitTwo ==
  /\ variant = "sharp"
  /\ pc = "idle"
  /\ parsed = NoParsed
  /\ pageResp = NoPageResp
  /\ robotsResp = NoRobotsResp
  /\ robotsAllowed = FALSE
  /\ pageFetched = FALSE
  /\ content = <<>> /\ prefix = <<>> /\ imageUrls = <<>> /\ finalContent = <<>>
  /\ thrown = <<>> /\ failStage = "none" /\ clipThrown = <<>>
  /\ response = NoResponse
  /\ images = <<>> /\ fetched = <<>> /\ data = <<>>
  /\ slots = <<>> /\ order = <<>> /\ idx = 0
  /\ hasPbcopy = FALSE
  /\ currentGroup = <<>> /\ currentHeight = 0 /\ currentSize = 0
  /\ handed = <<>> /\ resume = "none"
  /\ tempDirExists = FALSE /\ tempFiles = {}
  /\ events = <<>> /\ helperOut = NoHelperOut
  /\ inv \in [Invocations ->
               [pc : {"mkdir"}, nGroups : 1..MaxGroups, group : {0},
                path : {NoPath}, placed : {<<>>}]]
  /\ fsDir = FALSE
  /\ fsFiles = NoFiles
  /\ now = 0
  /\ clipboard = NoFile

NextTwo ==
  \/ TwoMkdir
  \/ TwoPath
  \/ TwoWrite
  \/ TwoSetClip
  \/ TwoSleep1
  \/ TwoPaste
  \/ TwoSleep2
  \/ TwoRmdir
  \/ Tick

SpecTwo == InitTwo /\ [][NextTwo]_vars

\* ------------------------------------------------ a client that pages
\* A client asks for a page from start index 0 and, as long as the response
\* carries a truncation notice, asks again with the start index the notice
\* states.  The site serves the same page every time.
PagingPages ==
  {r \in PageRespSet :
     /\ r.kind = "http" /\ IsOk(r.status)
     /\ r.len >= 1
     /\ r.nImages = 0 /\ r.nOutside = 0
     /\ (IsHtml(r) => r.article)}

\* the number a notice states, as the client reads it
ParseInt(str) == CHOOSE n \in 0..(MaxPageStart + MaxMaxLength) : ToString(n) = str
StatedIndex(text) ==
  ParseInt(text[(CHOOSE i \in DOMAIN text : text[i] = NoticeHead) + 1])

\* fetchUrl and the assembly of the response, for the page the site serves
PagingResponse ==
  /\ PageResponse
  /\ pageResp' \in PagingPages
  /\ pageResp = NoPageResp \/ pageResp' = pageResp

\* the next tools/call of the client, up to the page request of its handler
PagingFollow ==
  /\ pc = "done"
  /\ HasNotice(response.text)
  /\ StatedIndex(response.text) <= MaxPageStart
  /\ parsed' = [parsed EXCEPT !.startIndex = StatedIndex(response.text)]
  /\ pc' = "page"
  /\ content' = <<>> /\ prefix' = <<>> /\ imageUrls' = <<>> /\ finalContent' = <<>>
  /\ response' = NoResponse
  /\ UNCHANGED <<variant, pageResp, gateVars, thrown, failStage, clipThrown,
                 imgVars, batchVars, tmpVars, pgVars, twoVars>>

InitPaging ==
  /\ variant \in Variants
  /\ pc = "page"
  /\ parsed \in [url : {TheUrl}, maxLength : 1..MaxMaxLength,
                 startIndex : {0}, raw : BOOLEAN]
  /\ pageResp = NoPageResp
  /\ robotsResp = IF variant = "index" THEN NoRobotsResp
                  ELSE [kind |-> "http", status |-> 404, bodyAllows |-> FALSE]
  /\ robotsAllowed = (variant # "index")
  /\ pageFetched = TRUE
  /\ content = <<>> /\ prefix = <<>> /\ imageUrls = <<>> /\ finalContent = <<>>
  /\ thrown = <<>> /\ failStage = "none" /\ clipThrown = <<>>
  /\ response = NoResponse
  /\ images = <<>> /\ fetched = <<>> /\ data = <<>>
  /\ slots = <<>> /\ order = <<>> /\ idx = 0
  /\ hasPbcopy = FALSE
  /\ currentGroup = <<>> /\ currentHeight = 0 /\ currentSize = 0
  /\ handed = <<>> /\ resume = "none"
  /\ tempDirExists = FALSE /\ tempFiles = {}
  /\ events = <<>> /\ helperOut = NoHelperOut
  /\ TwoIdle

NextPaging ==
  \/ PagingResponse
  \/ PagingFollow

SpecPaging == InitPaging /\ [][NextPaging]_vars

\* ================================================================ claims
Done == pc = "done"
Succeeded == Done /\ ~response.isError
\* the publish step ran to its end without an error
Published == Succeeded /\ clipThrown = <<>> /\ handed # <<>>

RECURSIVE Concat(_)
Concat(groups) ==
  IF groups = <<>> THEN <<>> ELSE Head(groups) \o Concat(Tail(groups))

RECURSIVE GroupHeight(_)
GroupHeight(g) ==
  IF g = <<>> THEN 0 ELSE data[Head(g)].height + GroupHeight(Tail(g))

RECURSIVE GroupSize(_)
GroupSize(g) ==
  IF g = <<>> THEN 0 ELSE data[Head(g)].size + GroupSize(Tail(g))

Range(f) == {f[i] : i \in DOMAIN f}

\* the characters of c at the 0-based positions s <= i < s + m
Window(c, s, m) ==
  [i \in 1..(Min(Len(c), s + m) - Min(Len(c), s)) |-> c[Min(Len(c), s) + i]]

\* finalContent without its truncation notice
ContentPart ==
  IF HasNotice(finalContent)
  THEN SubSeq(finalContent, 1, Len(finalContent) - 3)
  ELSE finalContent

\* where finalContent sits in the response text
BodyStart == Len(prefix) + 3

\* C1: a tools/call never ends in a thrown fault: every error that reaches
\* the handler (unknown tool, invalid arguments, robots denial, page fetch
\* failure, an exception of a later stage) is returned as a payload with
\* isError = TRUE whose text is "Error: " followed by the error's message,
\* and a run without such an error returns a payload without the error flag.
C1_NoFault ==
  Done =>
    IF failStage # "none"
    THEN /\ response.isError = TRUE
         /\ response.text = <<"Error: ">> \o thrown
         /\ thrown # <<>>
    ELSE /\ response.isError = FALSE
         /\ response.text # <<>>
         /\ response.text[1] # "Error: "

C1_Witness ==
  /\ Done
  /\ failStage = "page"
  /\ response = [isError |-> TRUE,
                 text |-> <<"Error: ", "Failed to fetch ", TheUrl,
                            " - status code ", "404">>]

\* C2: the page is fetched only after the robots check has run and allowed.
C2_RobotsBeforeFetch == pageFetched => robotsAllowed

\* C3: when the robots.txt request answers 401 or 403 the gate denies
\* whatever the body is (error payload, no page fetch); when it answers 404
\* the gate allows and the page fetch is issued.
C3_FailClosedOnAuthOpenOnAbsence ==
  /\ (robotsResp.kind = "http" /\ robotsResp.status \in {401, 403}) =>
       (/\ ~pageFetched
        /\ ~robotsAllowed
        /\ Done
        /\ response.isError
        /\ failStage = "robots")
  /\ (robotsResp.kind = "http" /\ robotsResp.status = 404) =>
       (robotsAllowed /\ pageFetched /\ failStage # "robots")

C3_Witness ==
  /\ robotsResp.kind = "http"
  /\ robotsResp.status = 403
  /\ robotsResp.bodyAllows
  /\ Done
  /\ response.isError

\* C4: every outcome of the robots.txt request that leaves the policy
\* unavailable for a reason other than 401/403 (another non-2xx status, or a
\* request that rejects) makes the gate allow and the page fetch proceed.
C4_UnavailableAllows ==
  (\/ robotsResp.kind = "reject"
   \/ (robotsResp.kind = "http" /\ ~IsOk(robotsResp.status)
         /\ robotsResp.status \notin {401, 403})) =>
    (robotsAllowed /\ pageFetched /\ failStage # "robots")

\* C5 as stated: every group handed to processGroup has at most 6 images,
\* cumulative height at most 8000 and cumulative size at most 30 MiB.
C5_Original ==
  \A k \in DOMAIN handed :
    /\ Len(handed[k]) <= 6
    /\ GroupHeight(handed[k]) <= 8000
    /\ GroupSize(handed[k]) <= 30 * 1024 * 1024

\* C5 as amended: every group handed to processGroup has at most 6 images,
\* and its cumulative height is at most 8000 and its cumulative size at most
\* 30 MiB unless it consists of exactly one image.
C5_GroupBounds ==
  \A k \in DOMAIN handed :
    /\ Len(handed[k]) <= 6
    /\ \/ Len(handed[k]) = 1
       \/ /\ GroupHeight(handed[k]) <= 8000
          /\ GroupSize(handed[k]) <= 30 * 1024 * 1024

C5_Witness ==
  /\ Published
  /\ \E k \in DOMAIN handed : Len(handed[k]) = 6
  /\ \E k \in DOMAIN handed : Len(handed[k]) = 1 /\ GroupHeight(handed[k]) > 8000
  /\ \E k \in DOMAIN handed : Len(handed[k]) = 1 /\ GroupSize(handed[k]) <= 30 * 1024 * 1024

\* C6: when the publish step completes without error, the groups in the
\* order they were processed concatenate to the input sequence, which holds
\* the acquired images in document order, also when their fetches settled
\* out of order.
C6_OrderPreserved ==
  Published =>
    /\ Concat(handed) = fetched
    /\ \A i \in DOMAIN fetched, j \in DOMAIN fetched : i < j => fetched[i] < fetched[j]
    /\ (variant = "sharp" => fetched = images)
    /\ (variant = "applescript" =>
          Range(fetched) = {i \in DOMAIN slots : slots[i] = "ok"})

C6_Witness ==
  /\ Published
  /\ variant = "applescript"
  /\ Len(fetched) >= 2
  /\ order[1] > order[2]

\* C7: an image whose own height exceeds 8000 or whose own size exceeds
\* 30 MiB is never grouped with another image and never dropped: it is
\* handed to processGroup as a group of exactly one image, wherever it
\* occurs in the input.
Oversize(i) == data[i].height > 8000 \/ data[i].size > 30 * 1024 * 1024

C7_OversizeSingleton ==
  /\ \A k \in DOMAIN handed : \A j \in DOMAIN handed[k] :
       Oversize(handed[k][j]) => Len(handed[k]) = 1
  /\ \A j \in DOMAIN currentGroup :
       Oversize(currentGroup[j]) => Len(currentGroup) = 1
  /\ (Published /\ variant = "sharp") =>
       \A i \in DOMAIN fetched :
         Oversize(fetched[i]) =>
           /\ \E k \in DOMAIN handed : handed[k] = <<fetched[i]>>
           /\ \A n \in DOMAIN fetched :
                n # i => \E k \in DOMAIN handed :
                           /\ fetched[n] \in Range(handed[k])
                           /\ fetched[i] \notin Range(handed[k])

C7_Witness ==
  /\ Published
  /\ variant = "sharp"
  /\ Len(fetched) >= 3
  /\ Oversize(1) /\ ~Oversize(2) /\ Oversize(3)
  /\ \E i \in DOMAIN fetched :
       i > 3 /\ i < Len(fetched) /\ Oversize(i) /\ ~Oversize(i + 1)

\* C8: when the content is longer than maxLength the excerpt is
\* content[startIndex : startIndex + maxLength] and the notice states the
\* next index startIndex + maxLength; when it is not longer, the response
\* carries no truncation notice.
C8_Truncation ==
  Succeeded =>
    /\ SubSeq(response.text, BodyStart + 1, BodyStart + Len(finalContent)) = finalContent
    /\ IF Len(content) > parsed.maxLength
       THEN LET w == Window(content, parsed.startIndex, parsed.maxLength)
            IN  /\ Len(finalContent) = Len(w) + 3
                /\ SubSeq(finalContent, 1, Len(w)) = w
                /\ finalContent[Len(w) + 1] = NoticeHead
                /\ finalContent[Len(w) + 2] = ToString(parsed.startIndex + parsed.maxLength)
       ELSE ~HasNotice(response.text)

C8_Witness ==
  /\ Succeeded
  /\ Len(content) = 3
  /\ parsed.startIndex = 1
  /\ parsed.maxLength = 1
  /\ finalContent = <<"2", NoticeHead, "2", NoticeTail>>

\* C9: for every valid request the content part of the response is the
\* window [startIndex, startIndex + maxLength) of the content.
C9_AlwaysWindow ==
  Succeeded => ContentPart = Window(content, parsed.startIndex, parsed.maxLength)

\* C10: when the fetch of one of the article's images fails and nothing else
\* does, the invocation still returns the page content without the error
\* flag, and the image count it reports is that of the acquired images.
ImageFetchFailed ==
  \/ failStage = "image"
  \/ \E i \in DOMAIN slots : slots[i] = "null"

C10_ImageFailureNonFatal ==
  (Done /\ ImageFetchFailed /\ failStage # "clipboard") =>
    /\ ~response.isError
    /\ fetched # <<>> => prefix[2] = ToString(Len(fetched))

\* C11: when addImagesToClipboard fails, the invocation still returns a
\* payload without the error flag, made of the note that copying to the
\* clipboard failed, the extracted content and the list of image URLs.
ClipboardFailed == clipThrown # <<>> \/ failStage = "clipboard"

C11_ClipboardFailureDegrades ==
  (Done /\ ClipboardFailed) =>
    /\ ~response.isError
    /\ prefix = FailedPrefix(Len(fetched), clipThrown)
    /\ response.text =
         prefix \o <<"Contents of ", parsed.url, ":\n">>
                \o FinalContent(content, parsed)
                \o ImagesSection(MapSrc(fetched))

\* C12: in the revision of src/index.ts, for every HTML page whose
\* extraction yields an article the text after the content is the section
\* header followed by one "- <url>" line for each img element of the
\* extracted article, in document order, and none for an img element outside
\* it; the header is absent exactly when the article holds no img element.
SectionHead == "\n\nImages found in article:\n"
HasSection(text) == \E i \in DOMAIN text : text[i] = SectionHead
SectionPart ==
  SubSeq(response.text, BodyStart + Len(finalContent) + 1, Len(response.text))
ArticleExtracted ==
  /\ pageResp.kind = "http"
  /\ IsOk(pageResp.status)
  /\ IsHtml(pageResp)
  /\ ~parsed.raw
  /\ pageResp.article

C12_ImagesSection ==
  (variant = "index" /\ Done /\ ArticleExtracted) =>
    LET n == pageResp.nImages
    IN  /\ ~response.isError
        /\ HasSection(response.text) <=> n > 0
        /\ Len(SectionPart) = 3 * n
        /\ n > 0 => SectionPart[1] = SectionHead
        /\ \A i \in 1..n :
             /\ SectionPart[3 * i - 1] = "- "
             /\ SectionPart[3 * i] = ToString(i)
             /\ i < n => SectionPart[3 * i + 1] = "\n"

C12_Witness ==
  /\ variant = "index"
  /\ Done
  /\ ArticleExtracted
  /\ pageResp.nImages = 1
  /\ pageResp.nOutside = 1
  /\ SectionPart = <<SectionHead, "- ", "1">>

\* a page whose only img element lies outside the article has no section
C12_NoSectionReached ==
  /\ variant = "index"
  /\ Done
  /\ ArticleExtracted
  /\ pageResp.nImages = 0
  /\ pageResp.nOutside = 1
  /\ ~HasSection(response.text)

\* C13: once the temp directory has been created, the publish step leaves
\* no composite file and no temp directory behind, however it ends.
C13_TempRemoved ==
  Done => (~tempDirExists /\ tempFiles = {})

\* C14: when the stderr of the clipboard-set step or of the paste step holds
\* a line without "WARNING:", the publish step fails there and the failure
\* reaches fetchUrl; when every line holds "WARNING:" or stderr is empty,
\* processGroup goes on to the delay that follows the step.
HelperEnded(step) == helperOut.step = step /\ ~helperOut.rejected
HelperFailedLine == Len(NonWarningLines(helperOut.stderr)) > 0

StderrTreated(step, next) ==
  HelperEnded(step) =>
    IF HelperFailedLine
    THEN Done /\ clipThrown = CopyFailedMsg /\ events[Len(events)].kind # step
    ELSE pc = next /\ clipThrown = <<>> /\ events[Len(events)].kind = step

C14_StderrSameTreatment ==
  /\ StderrTreated("setclip", "pg_sleep1")
  /\ StderrTreated("paste", "pg_sleep2")

\* the clipboard-set half of C14 on its own
C14_SetClipStep == StderrTreated("setclip", "pg_sleep1")

\* C15: the publish step is strictly sequential: what processGroup has done
\* is, group after group in the order the groups were formed from the input,
\* write artifact, set clipboard, delay, paste keystroke, delay; nothing is
\* done for a group before the second delay of the group before it is over.
StepOrder == <<"write", "setclip", "sleep", "paste", "sleep">>
NonEmptyGroups == SelectSeq(Ids(Len(handed)), LAMBDA k : handed[k] # <<>>)
IsPrefix(a, b) == Len(a) <= Len(b) /\ SubSeq(b, 1, Len(a)) = a

C15_StrictlySequential ==
  LET groups == NonEmptyGroups
  IN  /\ \A i \in DOMAIN events :
           /\ events[i].kind = StepOrder[((i - 1) % 5) + 1]
           /\ ((i - 1) \div 5) + 1 <= Len(groups)
           /\ events[i].group = groups[((i - 1) \div 5) + 1]
      \* a later group exists only once the ones before it are through
      /\ Len(events) >= 5 * (Len(groups) - 1)
      /\ IsPrefix(Concat(handed), fetched)

C15_Witness ==
  /\ Published
  /\ variant = "sharp"
  /\ Len(NonEmptyGroups) >= 3
  /\ Len(events) = 5 * Len(NonEmptyGroups)
  /\ events[6] = [kind |-> "write", group |-> NonEmptyGroups[2]]
  /\ events[10] = [kind |-> "sleep", group |-> NonEmptyGroups[2]]

\* C16: when two invocations run the publish step at the same time, neither
\* loses a composite before its clipboard-set helper has read it: no
\* invocation fails for a missing file or directory, and what each has placed
\* on the clipboard is its own composites, one for each of its groups in turn.
C16_NoTempCollision ==
  \A i \in Invocations :
    /\ inv[i].pc # "failed"
    /\ \A k \in DOMAIN inv[i].placed :
         inv[i].placed[k] = [owner |-> i, group |-> k]

\* the composite of one invocation is deleted before it is read
C16_DeletedBeforeRead ==
  \E i \in Invocations : inv[i].pc = "failed"

\* an invocation places the composite of the other on the clipboard
C16_ReadsOther ==
  \E i \in Invocations : \E k \in DOMAIN inv[i].placed :
    inv[i].placed[k].owner # i

\* C17: the batcher is greedy: an image joins the open group exactly when
\* the group with it has at most 6 images, height at most 8000 and size at
\* most 30 MiB.  So every image of a group but its first fitted the images
\* before it, the first image of a group did not fit the group formed before
\* it, and nothing is composited or published for an empty group.
Fits(g, x) ==
  /\ Len(g) + 1 <= 6
  /\ GroupHeight(g) + data[x].height <= 8000
  /\ GroupSize(g) + data[x].size <= 30 * 1024 * 1024

\* the non-empty groups formed so far, the open one included
Formed ==
  LET closed == SelectSeq(handed, LAMBDA g : g # <<>>)
  IN  IF currentGroup # <<>> /\ (handed = <<>> \/ handed[Len(handed)] # currentGroup)
      THEN Append(closed, currentGroup)
      ELSE closed

C17_GreedyBatcher ==
  LET F == Formed
  IN  /\ \A k \in DOMAIN F :
           /\ \A j \in 2..Len(F[k]) : Fits(SubSeq(F[k], 1, j - 1), F[k][j])
           /\ k < Len(F) => ~Fits(F[k], F[k + 1][1])
      /\ \A i \in DOMAIN events : handed[events[i].group] # <<>>
      /\ \A f \in tempFiles : handed[f] # <<>>

\* an oversize first image (an empty group is passed to processGroup and
\* skipped), then a group closed at 8000 exactly and one closed by the count
C17_Witness ==
  /\ Published
  /\ variant = "sharp"
  /\ handed[1] = <<>>
  /\ Len(events) = 5 * (Len(handed) - 1)
  /\ \E k \in DOMAIN handed : Len(handed[k]) = 6

C17_WitnessAtLimit ==
  /\ Published
  /\ variant = "sharp"
  /\ \E k \in DOMAIN handed :
       /\ GroupHeight(handed[k]) = 8000
       /\ Len(handed[k]) < 6
       /\ k < Len(handed)

\* C18: paging terminates.  For content longer than maxLength, a response
\* to the paging client whose window reaches or passes the end of the
\* content (startIndex + maxLength >= L) carries no truncation notice, so
\* that the client has no further request to make.
PagedPastEnd ==
  /\ Succeeded
  /\ Len(content) > parsed.maxLength
  /\ parsed.startIndex + parsed.maxLength >= Len(content)

C18_PagingTerminates ==
  PagedPastEnd => ~HasNotice(response.text)

\* what the handler does instead: every response for content longer than
\* maxLength carries a notice, and the notice states a larger start index
C18_AlwaysAnotherPage ==
  (Succeeded /\ Len(content) > parsed.maxLength) =>
    /\ HasNotice(response.text)
    /\ StatedIndex(response.text) > parsed.startIndex

====
